---- MODULE Spec2Model ----
(***************************************************************************)
(* Package sqlite06: CRUD operations over two SQLite tables,               *)
(*     Users (ID INTEGER PRIMARY KEY, Username TEXT)                       *)
(*     Userdata (UserID INTEGER NOT NULL, Name, Surname, Description)      *)
(* src/sqlite06.go holds two revisions of the package.  Lines 1-230 are    *)
(* the complete package (AddUser, DeleteUser, ListUsers, UpdateUser);      *)
(* lines 232-384 are a second revision of AddUser and DeleteUser.  Spec is *)
(* the first revision, SpecRev2 the second.                                *)
(*                                                                         *)
(* Calls run one after another (the package is synchronous).  A call that  *)
(* executes two data-changing statements is two steps, so that the state   *)
(* between the statements is a state of the model.  Every db.Query and     *)
(* db.Exec may fail (an engine failure); a failed statement changes        *)
(* nothing.  sql.Open only validates the driver name, which is registered  *)
(* by the import, so openConnection does not fail.                         *)
(***************************************************************************)
EXTENDS Integers, Sequences, FiniteSets

VARIABLES
    Users,      \* table Users: a set of rows [ID, Username]
    Userdata,   \* table Userdata: rows [UserID, Name, Surname, Description] in rowid order
    pc,         \* "idle" between calls, "returned" when a call has just returned, else
                \* the statement the call in flight executes next
    op,         \* the call in flight or just returned ("none" between calls)
    d,          \* parameter d of AddUser / UpdateUser, as the caller passed it
    id,         \* parameter id of DeleteUser
    userID,     \* local userID of AddUser
    ret,        \* what the last call returned: [val, err, data]
    retLine,    \* source line of the return statement the last call took
    pre,        \* the two tables (and live) as they were when the call started
    failed,     \* some db.Query or db.Exec has failed so far
    callFault,  \* a db.Query or db.Exec of the call in flight / just returned has failed
    live        \* IDs returned by a successful AddUser and not deleted since

vars == <<Users, Userdata, pc, op, d, id, userID, ret, retLine, pre, failed, callFault, live>>

\* ------------------------------------------------------------------ bounds
MaxID == 2
MaxRows == 3

\* ------------------------------------------------------------------ inputs
\* A username is a sequence of characters.
UsernameInputs == { <<>>, <<"a">>, <<"A">>, <<"a", "B">>, <<"a", "b">> }
ProfileInputs ==
    { [Name |-> "n1", Surname |-> "s1", Description |-> "d1"],
      [Name |-> "n2", Surname |-> "s2", Description |-> "d2"] }
ArgIDs == (-1) .. MaxID

MkUserdata(i, u, n, s, de) ==
    [ID |-> i, Username |-> u, Name |-> n, Surname |-> s, Description |-> de]

ZeroUserdata == MkUserdata(0, <<>>, "", "", "")

\* Records a caller passes to AddUser (ID left at its zero value) and UpdateUser.
AddInputs ==
    { MkUserdata(0, u, p.Name, p.Surname, p.Description) :
        u \in UsernameInputs, p \in ProfileInputs }
UpdateInputs ==
    { MkUserdata(i, u, p.Name, p.Surname, p.Description) :
        i \in ArgIDs, u \in UsernameInputs, p \in ProfileInputs }

\* ------------------------------------------------------------------ helpers
SetMax(S) == CHOOSE x \in S : \A y \in S : y <= x

\* strings.ToLower on one character, and on a string.
LowerChar(c) ==
    CASE c = "A" -> "a"
      [] c = "B" -> "b"
      [] OTHER -> c

ToLower(s) == [i \in DOMAIN s |-> LowerChar(s[i])]

NilRet == [val |-> 0, err |-> "nil", data |-> <<>>]

\* Faulty variants of exists(): the scan loop never assigns userID; the
\* not-found value is the zero value instead of -1.
existsNeverAssigns(username) == -1

existsZeroSentinel(username) ==
    LET ids == {u.ID : u \in {u \in Users : u.Username = ToLower(username)}}
    IN  IF ids = {} THEN 0 ELSE SetMax(ids)

\* exists(): the ID of the last row the scan of Users yields for the lowered
\* username (SQLite scans Users in ID order), -1 when there is none.
exists(username) ==
    LET ids == {u.ID : u \in {u \in Users : u.Username = ToLower(username)}}
    IN  IF ids = {} THEN -1 ELSE SetMax(ids)

\* exists() when its Query may fail: a failed Query returns -1.
existsQuery(username, queryFails) ==
    IF queryFails THEN -1 ELSE exists(username)

\* The ID SQLite gives a row inserted with ID NULL: 1 in an empty table, else
\* the largest ID plus one.
NextID == IF Users = {} THEN 1 ELSE SetMax({u.ID : u \in Users}) + 1

\* ------------------------------------------------------------------ state
Init ==
    /\ Users = {}
    /\ Userdata = <<>>
    /\ pc = "idle"
    /\ op = "none"
    /\ d = ZeroUserdata
    /\ id = 0
    /\ userID = -1
    /\ ret = NilRet
    /\ retLine = 0
    /\ pre = [Users |-> {}, Userdata |-> <<>>, live |-> {}]
    /\ failed = FALSE
    /\ callFault = FALSE
    /\ live = {}

\* The call returns rv at source line ln, leaving the tables as U and D.
Return(rv, ln, U, D, nf, lv) ==
    /\ pc' = "returned"
    /\ ret' = rv
    /\ retLine' = ln
    /\ Users' = U
    /\ Userdata' = D
    /\ failed' = (failed \/ nf)
    /\ live' = lv

\* A call starts: op, the parameters and the snapshot of the tables.
Enter(o, dd, i) ==
    /\ pc = "idle"
    /\ op' = o
    /\ d' = dd
    /\ id' = i
    /\ pre' = [Users |-> Users, Userdata |-> Userdata, live |-> live]

\* The caller has the returned value: parameters, locals and the result of the
\* call are gone, the tables stay.
CallReturned ==
    /\ pc = "returned"
    /\ pc' = "idle"
    /\ op' = "none"
    /\ d' = ZeroUserdata
    /\ id' = 0
    /\ userID' = -1
    /\ ret' = NilRet
    /\ retLine' = 0
    /\ pre' = [Users |-> {}, Userdata |-> <<>>, live |-> {}]
    /\ callFault' = FALSE
    /\ UNCHANGED <<Users, Userdata, failed, live>>

\* ------------------------------------------------------------------ statements
\* Faulty variant: the username is not lowered.
AddUser_usernameAsGiven(r) == r.Username

\* AddUser line 84: the username AddUser stores and looks up.
AddUser_username(r) == ToLower(r.Username)

\* INSERT INTO Users values (NULL,?)
InsertUser(U, username) == U \cup {[ID |-> NextID, Username |-> username]}

\* Faulty variant: Name and Surname bound in the wrong order.
ProfileRowSwapped(uid, r) ==
    [UserID |-> uid, Name |-> r.Surname, Surname |-> r.Name, Description |-> r.Description]

\* The row of INSERT INTO Userdata values (?,?,?,?).
ProfileRow(uid, r) ==
    [UserID |-> uid, Name |-> r.Name, Surname |-> r.Surname, Description |-> r.Description]

\* Faulty variant: the userID of the first exists() (what the second revision
\* does).
AddUser_profileUserIDStale(found) == userID

\* AddUser lines 107-114: the UserID of the profile row is the ID the second
\* exists() found.
AddUser_profileUserID(found) == found

\* DELETE FROM Userdata WHERE UserID = ?
DeleteFromUserdata(D, i) == SelectSeq(D, LAMBDA p : p.UserID # i)

\* Faulty variant: the DELETE matches no row.
DeleteFromUsersNothing(U, i) == U

\* DELETE FROM Users WHERE ID = ?
DeleteFromUsers(U, i) == {u \in U : u.ID # i}

\* SELECT Username FROM Users WHERE ID = ? followed by the scan loop: the
\* username of the row with that ID, the zero value "" when there is none.
UsernameOfID(i) ==
    IF \E u \in Users : u.ID = i
    THEN (CHOOSE u \in Users : u.ID = i).Username
    ELSE <<>>

\* UPDATE Userdata set Name = ?, Surname = ?, Description = ? WHERE UserID = ?
UpdateUserdata(D, n, s, de, uid) ==
    [i \in DOMAIN D |->
        IF D[i].UserID = uid
        THEN [UserID |-> uid, Name |-> n, Surname |-> s, Description |-> de]
        ELSE D[i]]

\* SELECT ID, Username, Name, Surname, Description FROM USERS, Userdata
\* WHERE Users.ID = Userdata.UserID, scanned into a slice: one record per pair
\* of a profile row and a user row with the same ID.  SQL fixes no order for
\* the result; the order here is SQLite's plan (Userdata scanned in rowid
\* order, Users looked up by ID, which is its primary key).
RECURSIVE JoinFrom(_)
JoinFrom(i) ==
    IF i > Len(Userdata) THEN <<>>
    ELSE LET p == Userdata[i]
             m == {u \in Users : u.ID = p.UserID}
         IN  (IF m = {} THEN <<>>
              ELSE LET u == CHOOSE x \in m : TRUE
                   IN  <<MkUserdata(u.ID, u.Username, p.Name, p.Surname, p.Description)>>)
             \o JoinFrom(i + 1)

\* Faulty variant: a left join, which also lists the users with no profile row.
RECURSIVE LeftJoinFrom(_)
LeftJoinFrom(us) ==
    IF us = {} THEN <<>>
    ELSE LET u == CHOOSE x \in us : \A y \in us : x.ID <= y.ID
             ps == SelectSeq(Userdata, LAMBDA p : p.UserID = u.ID)
         IN  (IF ps = <<>> THEN <<MkUserdata(u.ID, u.Username, "", "", "")>>
              ELSE [k \in DOMAIN ps |->
                      MkUserdata(u.ID, u.Username, ps[k].Name, ps[k].Surname, ps[k].Description)])
             \o LeftJoinFrom(us \ {u})

ListUsersLeftJoin == LeftJoinFrom(Users)

ListUsersResult == JoinFrom(1)

\* ------------------------------------------------------------------ AddUser
\* Lines 83-104: lower the username, reject an existing one, insert the user row.
AddUserCall(r) ==
    /\ Enter("AddUser", r, 0)
    /\ \E qf \in BOOLEAN :
        LET name == AddUser_username(r)
            found == existsQuery(name, qf)
        IN  /\ userID' = found
            /\ IF found # -1
               THEN /\ callFault' = qf
                    /\ Return([NilRet EXCEPT !.val = -1], 95, Users, Userdata, qf, live)
               ELSE \E ef \in BOOLEAN :
                    /\ callFault' = (qf \/ ef)
                    /\ IF ef
                       THEN Return([NilRet EXCEPT !.val = -1], 103, Users, Userdata,
                                   TRUE, live)
                       ELSE /\ NextID <= MaxID
                            /\ Users' = InsertUser(Users, name)
                            /\ pc' = "AddUser_107"
                            /\ failed' = (failed \/ qf)
                            /\ UNCHANGED <<Userdata, ret, retLine, live>>

\* Lines 106-120: look the new user up, insert the profile row, return the ID.
AddUserInsertData ==
    /\ pc = "AddUser_107"
    /\ op = "AddUser"
    /\ UNCHANGED <<op, d, id, pre>>
    /\ \E qf \in BOOLEAN :
        LET name == AddUser_username(d)
            found == existsQuery(name, qf)
        IN  /\ userID' = found
            /\ IF found = -1
               THEN /\ callFault' = (callFault \/ qf)
                    /\ Return([NilRet EXCEPT !.val = -1], 109, Users, Userdata, qf, live)
               ELSE \E ef \in BOOLEAN :
                    /\ callFault' = (callFault \/ ef)
                    /\ IF ef
                       THEN Return([NilRet EXCEPT !.val = -1], 118, Users, Userdata, TRUE, live)
                       ELSE Return([NilRet EXCEPT !.val = found], 120, Users,
                                   Append(Userdata, ProfileRow(AddUser_profileUserID(found), d)),
                                   FALSE, live \cup {found})

\* ------------------------------------------------------------------ DeleteUser
\* Lines 123-157: find the username of id, check it with exists(), delete the
\* profile rows.
DeleteUserCall(i) ==
    /\ Enter("DeleteUser", ZeroUserdata, i)
    /\ userID' = -1
    /\ \E sf \in BOOLEAN :
        IF sf
        THEN /\ callFault' = TRUE
             /\ Return([NilRet EXCEPT !.err = "err"], 135, Users, Userdata, TRUE, live)
        ELSE \E qf \in BOOLEAN :
             LET username == UsernameOfID(i)
                 found == existsQuery(username, qf)
             IN  IF found = -1
                 THEN /\ callFault' = qf
                      /\ Return([NilRet EXCEPT !.err = "err"], 149, Users, Userdata,
                                qf, live)
                 ELSE \E ef \in BOOLEAN :
                      /\ callFault' = ef
                      /\ IF ef
                         THEN Return([NilRet EXCEPT !.err = "err"], 156, Users, Userdata,
                                     TRUE, live)
                         ELSE /\ Userdata' = DeleteFromUserdata(Userdata, i)
                              /\ pc' = "DeleteUser_159"
                              /\ UNCHANGED <<Users, ret, retLine, failed, live>>

\* Lines 159-165: delete the user row.
DeleteUserDeleteUser ==
    /\ pc = "DeleteUser_159"
    /\ op = "DeleteUser"
    /\ UNCHANGED <<op, d, id, pre, userID>>
    /\ \E ef \in BOOLEAN :
        /\ callFault' = (callFault \/ ef)
        /\ IF ef
           THEN Return([NilRet EXCEPT !.err = "err"], 163, Users, Userdata, TRUE, live)
           ELSE Return(NilRet, 165, DeleteFromUsers(Users, id), Userdata, FALSE, live \ {id})

\* ------------------------------------------------------------------ ListUsers
\* Lines 168-203.
ListUsers ==
    /\ Enter("ListUsers", ZeroUserdata, 0)
    /\ userID' = -1
    /\ \E qf \in BOOLEAN :
        /\ callFault' = qf
        /\ IF qf
           THEN Return([NilRet EXCEPT !.err = "err"], 182, Users, Userdata, TRUE, live)
           ELSE Return([NilRet EXCEPT !.data = ListUsersResult], 202, Users, Userdata, FALSE, live)

\* ------------------------------------------------------------------ UpdateUser
\* Lines 206-230: the existence check is by d.Username, the UPDATE is by d.ID.
UpdateUser(r) ==
    /\ Enter("UpdateUser", r, 0)
    /\ userID' = -1
    /\ \E qf \in BOOLEAN :
        LET found == existsQuery(r.Username, qf)
        IN  IF found = -1
            THEN /\ callFault' = qf
                 /\ Return([NilRet EXCEPT !.err = "err"], 218, Users, Userdata, qf, live)
            ELSE \E ef \in BOOLEAN :
                 /\ callFault' = ef
                 /\ IF ef
                    THEN Return([NilRet EXCEPT !.err = "err"], 226, Users, Userdata, TRUE, live)
                    ELSE Return(NilRet, 229, Users,
                                UpdateUserdata(Userdata, r.Name, r.Surname, r.Description, r.ID),
                                FALSE, live)

Next ==
    \/ \E r \in AddInputs : AddUserCall(r)
    \/ AddUserInsertData
    \/ \E i \in ArgIDs : DeleteUserCall(i)
    \/ DeleteUserDeleteUser
    \/ ListUsers
    \/ \E r \in UpdateInputs : UpdateUser(r)
    \/ CallReturned

Spec == Init /\ [][Next]_vars

\* ------------------------------------------------------------------ second revision
\* AddUser, lines 304-325: as in the first revision.
AddUser2Call(r) ==
    /\ Enter("AddUser", r, 0)
    /\ \E qf \in BOOLEAN :
        LET name == ToLower(r.Username)
            found == existsQuery(name, qf)
        IN  /\ userID' = found
            /\ IF found # -1
               THEN /\ callFault' = qf
                    /\ Return([NilRet EXCEPT !.val = -1], 316, Users, Userdata, qf, live)
               ELSE \E ef \in BOOLEAN :
                    /\ callFault' = (qf \/ ef)
                    /\ IF ef
                       THEN Return([NilRet EXCEPT !.val = -1], 324, Users, Userdata,
                                   TRUE, live)
                       ELSE /\ NextID <= MaxID
                            /\ Len(Userdata) < MaxRows
                            /\ Users' = InsertUser(Users, name)
                            /\ pc' = "AddUser_328"
                            /\ failed' = (failed \/ qf)
                            /\ UNCHANGED <<Userdata, ret, retLine, live>>

\* AddUser, lines 327-339: the second exists() is only tested; the profile row
\* is inserted with, and the call returns, the userID of line 313.
AddUser2InsertData ==
    /\ pc = "AddUser_328"
    /\ op = "AddUser"
    /\ UNCHANGED <<op, d, id, pre, userID>>
    /\ \E qf \in BOOLEAN :
        IF existsQuery(ToLower(d.Username), qf) = -1
        THEN /\ callFault' = (callFault \/ qf)
             /\ Return([NilRet EXCEPT !.val = -1], 329, Users, Userdata, qf, live)
        ELSE \E ef \in BOOLEAN :
             /\ callFault' = (callFault \/ ef)
             /\ IF ef
                THEN Return([NilRet EXCEPT !.val = -1], 337, Users, Userdata, TRUE, live)
                ELSE Return([NilRet EXCEPT !.val = userID], 339, Users,
                            Append(Userdata, ProfileRow(userID, d)), FALSE,
                            IF userID # -1 THEN live \cup {userID} ELSE live)

\* DeleteUser, lines 342-375: the check is exists(username) != id.
DeleteUser2Call(i) ==
    /\ Enter("DeleteUser", ZeroUserdata, i)
    /\ userID' = -1
    /\ \E sf \in BOOLEAN :
        IF sf
        THEN /\ callFault' = TRUE
             /\ Return([NilRet EXCEPT !.err = "err"], 354, Users, Userdata, TRUE, live)
        ELSE \E qf \in BOOLEAN :
             LET username == UsernameOfID(i)
                 found == existsQuery(username, qf)
             IN  IF found # i
                 THEN /\ callFault' = qf
                      /\ Return([NilRet EXCEPT !.err = "err"], 368, Users, Userdata,
                                qf, live)
                 ELSE \E ef \in BOOLEAN :
                      /\ callFault' = (qf \/ ef)
                      /\ IF ef
                         THEN Return([NilRet EXCEPT !.err = "err"], 374, Users, Userdata,
                                     TRUE, live)
                         ELSE /\ Userdata' = DeleteFromUserdata(Userdata, i)
                              /\ pc' = "DeleteUser_377"
                              /\ failed' = (failed \/ qf)
                              /\ UNCHANGED <<Users, ret, retLine, live>>

\* DeleteUser, lines 377-383.
DeleteUser2DeleteUser ==
    /\ pc = "DeleteUser_377"
    /\ op = "DeleteUser"
    /\ UNCHANGED <<op, d, id, pre, userID>>
    /\ \E ef \in BOOLEAN :
        /\ callFault' = (callFault \/ ef)
        /\ IF ef
           THEN Return([NilRet EXCEPT !.err = "err"], 381, Users, Userdata, TRUE, live)
           ELSE Return(NilRet, 383, DeleteFromUsers(Users, id), Userdata, FALSE, live \ {id})

NextRev2 ==
    \/ \E r \in AddInputs : AddUser2Call(r)
    \/ AddUser2InsertData
    \/ \E i \in ArgIDs : DeleteUser2Call(i)
    \/ DeleteUser2DeleteUser
    \/ CallReturned

SpecRev2 == Init /\ [][NextRev2]_vars

\* ------------------------------------------------------------------ properties
\* A call of o has just returned.
Completed(o) == pc = "returned" /\ op = o

\* Some row of U has the username, up to letter case.
HasUsername(U, username) == \E u \in U : ToLower(u.Username) = ToLower(username)

Unchanged == Users = pre.Users /\ Userdata = pre.Userdata

\* C1: UpdateUser(record) with the username of an existing user k, whatever
\* record.ID is, overwrites Name, Surname and Description of the profile rows
\* with UserID = k and changes nothing else.
C1_UpdateTargetsUsername ==
    (Completed("UpdateUser") /\ ~callFault /\ HasUsername(pre.Users, d.Username))
    => \A u \in pre.Users :
          ToLower(u.Username) = ToLower(d.Username)
          => /\ ret.err = "nil"
             /\ Users = pre.Users
             /\ Userdata =
                  [i \in DOMAIN pre.Userdata |->
                     IF pre.Userdata[i].UserID = u.ID
                     THEN [UserID |-> u.ID, Name |-> d.Name, Surname |-> d.Surname,
                           Description |-> d.Description]
                     ELSE pre.Userdata[i]]

\* C2: DeleteUser(id) for an id no user row has returns an error and changes
\* neither table.
C2_DeleteUnknownID ==
    (Completed("DeleteUser") /\ ~callFault /\ \A u \in pre.Users : u.ID # id)
    => (ret.err = "err" /\ Unchanged)

\* C3: an AddUser that reaches its final return statement, with no engine
\* failure on the way, returns the ID of the user row it inserted, never -1,
\* and the combined record ListUsers returns for the lowered username carries
\* that ID.
C3_AddUserReturnsNewID ==
    (Completed("AddUser") /\ ~callFault /\ retLine \in {120, 339})
    => /\ ret.val # -1
       /\ Users \ pre.Users = {[ID |-> ret.val, Username |-> ToLower(d.Username)]}
       /\ \E k \in DOMAIN ListUsersResult :
             ListUsersResult[k].Username = ToLower(d.Username)
       /\ \A k \in DOMAIN ListUsersResult :
             ListUsersResult[k].Username = ToLower(d.Username)
             => ListUsersResult[k].ID = ret.val

\* C4: after AddUser(r) for a username that was not in Users (up to case),
\* ListUsers has exactly one record with Username = lowercase(r.Username), and
\* its Name, Surname and Description are r's.
C4_AddThenList ==
    (Completed("AddUser") /\ ~callFault /\ ~HasUsername(pre.Users, d.Username))
    => LET L == ListUsersResult
           m == {k \in DOMAIN L : L[k].Username = ToLower(d.Username)}
       IN  /\ Cardinality(m) = 1
           /\ \A k \in m : /\ L[k].Name = d.Name
                           /\ L[k].Surname = d.Surname
                           /\ L[k].Description = d.Description

C4_Witness ==
    /\ Completed("AddUser") /\ ~callFault /\ ~HasUsername(pre.Users, d.Username)
    /\ d.Username = <<"a", "B">>
    /\ Len(ListUsersResult) = 2

\* C5: AddUser(r) when a user row has r's username up to letter case returns
\* -1 and leaves both tables as they were.
C5_AddExistingFails ==
    (Completed("AddUser") /\ ~callFault /\ HasUsername(pre.Users, d.Username))
    => (ret.val = -1 /\ Unchanged)

C5_Witness ==
    /\ Completed("AddUser") /\ ~callFault
    /\ d.Username = <<"A">>
    /\ \E u \in pre.Users : u.Username = <<"a">>
    /\ pre.Userdata # <<>>

\* C6: DeleteUser(id) for an id a successful AddUser returned and that was not
\* deleted since returns nil, removes the user row with that ID and the profile
\* rows with that UserID, changes no other row, and ListUsers then has no
\* record with that ID.
C6_DeleteRemovesBoth ==
    (Completed("DeleteUser") /\ ~callFault /\ id \in pre.live)
    => /\ ret.err = "nil"
       /\ \E u \in pre.Users : u.ID = id
       /\ Users = {u \in pre.Users : u.ID # id}
       /\ Userdata = SelectSeq(pre.Userdata, LAMBDA p : p.UserID # id)
       /\ \A k \in DOMAIN ListUsersResult : ListUsersResult[k].ID # id

C6_Witness ==
    /\ Completed("DeleteUser") /\ ~callFault /\ id \in pre.live
    /\ Len(pre.Userdata) = 2
    /\ Len(Userdata) = 1
    /\ Cardinality(Users) = 1

\* C7: UpdateUser(record) with a username no user row has (up to case) returns
\* an error and leaves both tables as they were, whatever record.ID is.
C7_UpdateUnknownFails ==
    (Completed("UpdateUser") /\ ~HasUsername(pre.Users, d.Username))
    => (ret.err = "err" /\ Unchanged)

C7_Witness ==
    /\ Completed("UpdateUser") /\ ~HasUsername(pre.Users, d.Username)
    /\ \E u \in pre.Users : u.ID = d.ID
    /\ \E k \in DOMAIN pre.Userdata :
          pre.Userdata[k].UserID = d.ID /\ pre.Userdata[k].Name # d.Name

\* C8: in every state, between the statements of a call and after an aborted
\* call included, every profile row's UserID is the ID of a user row.
C8_ReferentialIntegrity ==
    \A k \in DOMAIN Userdata : \E u \in Users : u.ID = Userdata[k].UserID

\* A DeleteUser aborted by a failure of its second statement: the profile row
\* is gone, the user row is still there.
C8_Witness ==
    /\ Completed("DeleteUser") /\ retLine = 163
    /\ \E u \in Users : u.ID = id
    /\ Len(pre.Userdata) = 2
    /\ Len(Userdata) = 1

\* C9: with no engine failure, no two user rows share an ID, no two share a
\* username up to letter case, and every stored username is lowercase.
C9_UniqueUsers ==
    ~failed
    => /\ \A u, v \in Users : u.ID = v.ID => u = v
       /\ \A u, v \in Users : ToLower(u.Username) = ToLower(v.Username) => u = v
       /\ \A u \in Users : u.Username = ToLower(u.Username)

C9_Witness ==
    /\ ~failed
    /\ Completed("AddUser") /\ retLine = 120
    /\ d.Username = <<"a", "B">>
    /\ \E u \in pre.Users : u.Username = <<"a">>
    /\ Cardinality(Users) = 2

\* The pairs of a user row and a profile row that the join matches.
JoinPairs == {pr \in Users \X DOMAIN Userdata : pr[1].ID = Userdata[pr[2]].UserID}

Combined(pr) ==
    MkUserdata(pr[1].ID, pr[1].Username, Userdata[pr[2]].Name,
               Userdata[pr[2]].Surname, Userdata[pr[2]].Description)

\* C10: ListUsers returns one combined record for each pair of a user row and
\* a profile row with Users.ID = Userdata.UserID and nothing else, and changes
\* neither table.
C10_ListIsInnerJoin ==
    (Completed("ListUsers") /\ ~callFault)
    => /\ Unchanged
       /\ ret.err = "nil"
       /\ Len(ret.data) = Cardinality(JoinPairs)
       /\ \A pr \in JoinPairs :
             Cardinality({k \in DOMAIN ret.data : ret.data[k] = Combined(pr)})
             = Cardinality({qr \in JoinPairs : Combined(qr) = Combined(pr)})

\* A list of one record while a second user row has no profile row.
C10_Witness ==
    /\ Completed("ListUsers") /\ ~callFault
    /\ Len(ret.data) = 1
    /\ Cardinality(Users) = 2

====
